---- MODULE Spec2Model ----
(***************************************************************************)
(* Model of immich_sync.py: main() as a sequential state machine.  One     *)
(* action per step of main(); every remote call is an action whose         *)
(* outcome (answer, error status, transport error) is chosen by the        *)
(* environment.  Asset ids and album ids are integers, 0 stands for None.  *)
(***************************************************************************)
EXTENDS Integers, Sequences, FiniteSets, TLC

\* ---------------------------------------------------------------- bounds
MaxGroups == 2
\* API_CHUNK of the source is 600; the model scales it down so that a
\* handful of files already needs several chunks.
API_CHUNK == 2

\* ------------------------------------------------------- program constants
VERIFY_RETRIES == 10
SEARCH_RETRIES == 12

\* ------------------------------------------------------------- vocabulary
None == 0
\* slot keys in the order main() reads them (lines 317, 348-355)
SlotKeys == <<"edited_photo", "original_photo", "edited_video", "original_video">>
Slots == {SlotKeys[k] : k \in 1..4}
SlotNo(s) == CHOOSE k \in 1..4 : SlotKeys[k] = s

\* content fingerprints of local files; 0 in a slot means the slot is empty
Checksums == {1, 2}
\* ids of assets that exist remotely before the run, and album ids
RemoteId(n) == 900 + n
R1 == RemoteId(1)
R2 == RemoteId(2)
OldIds == {R1, R2}
AlbumId(n) == 100 + n
Alb1 == AlbumId(1)
Albums == {Alb1}
\* the store gives every asset it creates an id of its own: the asset made
\* from file (g, s) gets BaseId(g, s), or the second id kept for that file
\* when an asset of an earlier run still bears the first (see NewId)
BaseId(g, s) == 10 * (g + 1) + SlotNo(s)
SecondId(id) == IF id < 50 THEN id + 50 ELSE id - 50

\* group shapes the scan can yield: slot -> checksum of the file in it
Grp(ep, op, ev, ov) ==
    [edited_photo |-> ep, original_photo |-> op, edited_video |-> ev, original_video |-> ov]
GroupShapes ==
    { Grp(2, 1, 0, 0),      \* edited + original photo
      Grp(0, 1, 0, 2),      \* photo with its live video
      Grp(0, 0, 1, 1) }     \* edited + original video with identical content

\* all sequences over S of length lo..hi
SeqsOf(S, lo, hi) == UNION { [1..n -> S] : n \in lo..hi }

\* ------------------------------------------------------------------ state
VARIABLES
    groups,              \* result of index_asset_groups(ROOT)
    DRY_RUN,             \* the DRY_RUN setting
    ckptFile,            \* the checkpoint file: [exists, text]
    remoteIdx,           \* remote store: checksum -> id of the asset holding it
    pc,                  \* position in main()
    raised,              \* call site whose exception left main(), or "none"
    pingResult,          \* outcome of this run's reachability check
    resume_index,
    asset_album_index,
    local_files_with_hash,
    existing_assets_map,
    chunk_start,         \* loop variable i of the pre-check loop
    i,                   \* loop variable i of the group loop (0-based)
    failures,
    fpos,                \* position of the resolve loop within files_to_upload
    ids_to_delete,
    saved_state,
    old_asset_id_by_file,
    polls,               \* verify-clear duplicate checks made for this group
    tries,               \* wait_for_asset attempts made for the current name
    new_edited,
    new_orig,
    unique_ids_to_delete,
    refreshed_orig,      \* answer of the re-fetch of line 488
    issued,              \* calls made for the current group: [op, g, real, tgt, ids];
                         \* a snapshot fetch carries in ids the position of its file
    failedGroups,        \* <<index, step>> of the groups of this run that failed
    writeFailed,         \* a checkpoint write of this run raised (swallowed)
    visited,             \* indexes of the groups this run announced (line 345), in order
    walk                 \* index_asset_groups: [files, pos, groups] of the walk

vars == << groups, DRY_RUN, ckptFile, remoteIdx, pc, raised, pingResult,
           resume_index, asset_album_index, local_files_with_hash,
           existing_assets_map, chunk_start, i, failures, fpos, ids_to_delete,
           saved_state, old_asset_id_by_file, polls, tries, new_edited,
           new_orig, unique_ids_to_delete, refreshed_orig, issued, failedGroups,
           writeFailed, visited, walk >>

groupLocals == << fpos, ids_to_delete, saved_state, old_asset_id_by_file,
                  polls, tries, new_edited, new_orig, unique_ids_to_delete,
                  refreshed_orig >>
\* the group locals a verify-clear or settle attempt leaves alone
inGroup == << fpos, ids_to_delete, saved_state, old_asset_id_by_file, tries,
              new_edited, new_orig, unique_ids_to_delete, refreshed_orig, issued >>
\* the group locals a name search leaves alone
inSettle == << fpos, ids_to_delete, saved_state, old_asset_id_by_file, polls,
               unique_ids_to_delete, refreshed_orig, issued >>

\* ------------------------------------------------------------ dictionaries
EmptyDict == [x \in {} |-> 0]
Put(d, k, v) == [x \in DOMAIN d \cup {k} |-> IF x = k THEN v ELSE d[x]]
Get(d, k, default) == IF k \in DOMAIN d THEN d[k] ELSE default
Range(f) == {f[x] : x \in DOMAIN f}
Min(a, b) == IF a < b THEN a ELSE b

\* ids of the assets the pre-check reported (lines 333-336)
PrecheckIds == {existing_assets_map[c].id : c \in DOMAIN existing_assets_map}
\* id of the asset this run's upload creates from file (g, s): one that no
\* asset known to the run bears
NewId(g, s) == IF BaseId(g, s) \in PrecheckIds THEN SecondId(BaseId(g, s)) ELSE BaseId(g, s)

\* --------------------------------------------------------- checkpoint text
Digits == <<"0", "1", "2", "3", "4", "5", "6", "7", "8", "9">>
IsDigit(c) == \E d \in 1..10 : Digits[d] = c
DigitVal(c) == (CHOOSE d \in 1..10 : Digits[d] = c) - 1

\* str(n) for n >= 0
RECURSIVE Str(_)
Str(n) == IF n < 10 THEN <<Digits[n + 1]>> ELSE Str(n \div 10) \o <<Digits[(n % 10) + 1]>>

\* int(text) for a text of digits
RECURSIVE IntOf(_)
IntOf(t) == IF t = <<>> THEN 0 ELSE 10 * IntOf(SubSeq(t, 1, Len(t) - 1)) + DigitVal(t[Len(t)])

\* lines 299-305: 0 when the file is absent, empty or does not parse
LoadCheckpoint(file) ==
    IF ~file.exists THEN 0
    ELSE IF file.text = <<>> THEN 0
    ELSE IF \A k \in 1..Len(file.text) : IsDigit(file.text[k]) THEN IntOf(file.text)
    ELSE 0

\* line 528: the mark written after group index idx
CheckpointMarkOff(idx) == idx
CheckpointMark(idx) == idx + 1

\* ------------------------------------------------------------ local files
\* sha1_b64(f) of the file in slot s of group number g (1-based position)
Sha1(g, s) == groups[g][s]
Path(g, s) == <<g, s>>

\* lines 347-355: the non-empty slots of a group, in priority order
RECURSIVE FilesFrom(_, _)
FilesFrom(grp, k) ==
    IF k > 4 THEN <<>>
    ELSE (IF grp[SlotKeys[k]] # 0 THEN <<SlotKeys[k]>> ELSE <<>>) \o FilesFrom(grp, k + 1)
FilesToUpload(grp) == FilesFrom(grp, 1)

\* lines 314-321: (path, checksum) of every file of every group, in order
RECURSIVE HashAll(_)
HashAll(g) ==
    IF g > Len(groups) THEN <<>>
    ELSE [k \in 1..Len(FilesToUpload(groups[g])) |->
             <<Path(g, FilesToUpload(groups[g])[k]), Sha1(g, FilesToUpload(groups[g])[k])>>]
         \o HashAll(g + 1)

\* path_map[path]["checksum"], line 331
PathChecksum(files, p) ==
    IF \E k \in 1..Len(files) : files[k][1] = p
    THEN files[CHOOSE k \in 1..Len(files) : files[k][1] = p
                 /\ \A j \in (k+1)..Len(files) : files[j][1] # p][2]
    ELSE 0

\* ----------------------------------------------------------- remote store
IdxChoices == { f \in [Checksums -> OldIds \cup {None}] :
                  /\ f[1] \in {None, R1}
                  /\ f[2] \in {None, R2} }

\* answer of POST /api/assets/bulk-upload-check for one item
CheckOne(idx, item) ==
    IF idx[item[2]] # None
    THEN [id |-> item[1], action |-> "reject", reason |-> "duplicate", assetId |-> idx[item[2]]]
    ELSE [id |-> item[1], action |-> "accept", reason |-> "-", assetId |-> None]
\* data["results"]: one result per item, in request order
CheckAnswer(idx, items) == [k \in 1..Len(items) |-> CheckOne(idx, items[k])]

\* lines 328-336: fold the results of one call into existing_assets_map
RECURSIVE Absorb(_, _, _, _)
Absorb(map, files, results, k) ==
    IF k > Len(results) THEN map
    ELSE LET res == results[k]
             checksum == PathChecksum(files, res.id)
         IN IF res.action = "reject" /\ res.reason = "duplicate" /\ checksum # 0
            THEN Absorb(Put(map, checksum, [id |-> res.assetId, path |-> res.id]),
                        files, results, k + 1)
            ELSE Absorb(map, files, results, k + 1)

\* line 326: chunk = local_files_with_hash[i : i + API_CHUNK]  (i is 0-based)
ChunkShort(files, start) == SubSeq(files, start + 1, Min(start + API_CHUNK - 1, Len(files)))
Chunk(files, start) == SubSeq(files, start + 1, Min(start + API_CHUNK, Len(files)))

\* ---------------------------------------------------------- group indexer
\* bound of the indexer's input: files in the tree
MaxFiles == 4

\* str.lower() over the characters that occur in the modelled names
UpperCase == <<"A", "D", "E", "G", "I", "J", "P", "T">>
LowerCase == <<"a", "d", "e", "g", "i", "j", "p", "t">>
LowerChar(c) ==
    IF \E k \in 1..Len(UpperCase) : UpperCase[k] = c
    THEN LowerCase[CHOOSE k \in 1..Len(UpperCase) : UpperCase[k] = c]
    ELSE c
Lower(str) == [k \in 1..Len(str) |-> LowerChar(str[k])]
\* str.endswith(suffix)
EndsWith(str, suffix) ==
    /\ Len(str) >= Len(suffix)
    /\ SubSeq(str, Len(str) - Len(suffix) + 1, Len(str)) = suffix

\* lines 39-40
PHOTO_EXT == { <<".", "h", "e", "i", "c">>, <<".", "j", "p", "g">>, <<".", "j", "p", "e", "g">>,
               <<".", "p", "n", "g">>, <<".", "d", "n", "g">>, <<".", "r", "a", "f">>,
               <<".", "c", "r", "2">>, <<".", "a", "r", "w">> }
VIDEO_EXT == { <<".", "m", "o", "v">>, <<".", "m", "p", "4">>, <<".", "m", "4", "v">> }
\* line 255
edited_suffix == <<"_", "e", "d", "i", "t", "e", "d">>

\* a file of the tree: directory, p.stem and p.suffix
File(dir, stem, suffix) == [dir |-> dir, stem |-> stem, suffix |-> suffix]
\* line 262
Recognized(p) == Lower(p.suffix) \in PHOTO_EXT \cup VIDEO_EXT
\* line 266
IsEditedCaseSensitive(stem) == EndsWith(stem, edited_suffix)
IsEdited(stem) == EndsWith(Lower(stem), edited_suffix)
\* line 267
Base(stem) == IF IsEdited(stem) THEN SubSeq(stem, 1, Len(stem) - Len(edited_suffix)) ELSE stem
\* line 268
Key(p) == <<p.dir, Lower(Base(p.stem))>>
\* lines 272-275
Field(p) ==
    IF Lower(p.suffix) \in PHOTO_EXT
    THEN (IF IsEdited(p.stem) THEN "edited_photo" ELSE "original_photo")
    ELSE (IF IsEdited(p.stem) THEN "edited_video" ELSE "original_video")

\* position of a key in the dict (kept in insertion order), 0 when absent
KeyPos(gs, key) ==
    IF \E k \in 1..Len(gs) : gs[k].key = key
    THEN CHOOSE k \in 1..Len(gs) : gs[k].key = key
    ELSE 0

\* lines 259-279: the body of the walk for one file
IndexOne(gs, p) ==
    IF ~Recognized(p) THEN gs
    ELSE LET key == Key(p)
             gs1 == IF KeyPos(gs, key) = 0
                    THEN Append(gs, [key |-> key, base |-> Base(p.stem), dir |-> p.dir,
                                     files |-> [x \in {} |-> 0]])
                    ELSE gs
             k == KeyPos(gs1, key)
         IN IF Field(p) \in DOMAIN gs1[k].files
            THEN gs1
            ELSE [gs1 EXCEPT ![k].files =
                     [x \in DOMAIN @ \cup {Field(p)} |-> IF x = Field(p) THEN p ELSE @[x]]]

\* the names the modelled trees draw from
Stem_a == <<"a">>
Stem_A == <<"A">>
Stem_b == <<"b">>
Stem_a_edited == <<"a", "_", "e", "d", "i", "t", "e", "d">>
Stem_a_EDITED == <<"a", "_", "E", "D", "I", "T", "E", "D">>
Ext_jpg == <<".", "j", "p", "g">>
Ext_JPG == <<".", "J", "P", "G">>
Ext_mov == <<".", "m", "o", "v">>
Ext_heic == <<".", "h", "e", "i", "c">>
Ext_txt == <<".", "t", "x", "t">>
FileUniverse ==
    { File("d1", Stem_a, Ext_jpg), File("d1", Stem_A, Ext_JPG),
      File("d1", Stem_a_edited, Ext_jpg), File("d1", Stem_a_EDITED, Ext_jpg),
      File("d1", Stem_a, Ext_mov), File("d1", Stem_a_edited, Ext_mov),
      File("d1", Stem_a, Ext_heic),
      File("d1", Stem_b, Ext_jpg), File("d1", Stem_a, Ext_txt),
      File("d2", Stem_a, Ext_jpg) }
\* the listings os.walk can yield: distinct files in any order
Trees == { t \in SeqsOf(FileUniverse, 0, MaxFiles) :
             \A j, k \in 1..Len(t) : j # k => t[j] # t[k] }
NoWalk == [files |-> <<>>, pos |-> 0, groups |-> <<>>]

\* ------------------------------------------------------------------- Init
NoState == [albums |-> <<>>, favorite_ids |-> {}]

\* the state main() starts in, given the checkpoint files it may find
Start(files) ==
    /\ groups \in SeqsOf(GroupShapes, 0, MaxGroups)
    /\ DRY_RUN \in BOOLEAN
    /\ ckptFile \in files
    /\ remoteIdx \in IdxChoices
    /\ pc = "ping"
    /\ raised = "none"
    /\ pingResult = "pending"
    /\ resume_index = 0
    /\ asset_album_index = EmptyDict
    /\ local_files_with_hash = <<>>
    /\ existing_assets_map = EmptyDict
    /\ chunk_start = 0
    /\ i = 0
    /\ failures = 0
    /\ fpos = 1
    /\ ids_to_delete = <<>>
    /\ saved_state = NoState
    /\ old_asset_id_by_file = EmptyDict
    /\ polls = 0
    /\ tries = 0
    /\ new_edited = None
    /\ new_orig = None
    /\ unique_ids_to_delete = <<>>
    /\ refreshed_orig = "unset"
    /\ issued = {}
    /\ failedGroups = {}
    /\ writeFailed = FALSE
    /\ visited = <<>>
    /\ walk = NoWalk

\* a first run: no checkpoint file, an empty one, or one that is not a number
Init ==
    Start({ [exists |-> FALSE, text |-> <<>>],
            [exists |-> TRUE, text |-> <<>>],
            [exists |-> TRUE, text |-> <<"x">>] })

\* --------------------------------------------------------------- helpers
Stopped == {"aborted", "empty", "done", "crashed"}
G == i + 1                              \* position of the current group in groups
CurGroup == groups[G]
CurFiles == FilesToUpload(CurGroup)

Call(op, real, tgt, ids) == [op |-> op, g |-> i, real |-> real, tgt |-> tgt, ids |-> ids]

\* an uncaught exception leaves main()
Crash(site) ==
    /\ pc' = "crashed"
    /\ raised' = site

\* continue: the loop moves to the next group.  The locals of the group are
\* dead from here on (lines 347-363 assign them afresh), so they are cleared.
LeaveGroup ==
    /\ i' = i + 1
    /\ pc' = "loop"
    /\ fpos' = 1
    /\ ids_to_delete' = <<>>
    /\ saved_state' = [albums |-> <<>>, favorite_ids |-> {}]
    /\ old_asset_id_by_file' = [x \in {} |-> 0]
    /\ polls' = 0
    /\ tries' = 0
    /\ new_edited' = None
    /\ new_orig' = None
    /\ unique_ids_to_delete' = <<>>
    /\ refreshed_orig' = "unset"
    /\ issued' = {}

\* failures += 1; continue  (lines 423-424, 441-442, 481-482)
FailGroupBreaks(step) ==
    /\ failures' = failures + 1
    /\ failedGroups' = failedGroups \cup {<<i, step>>}
    /\ pc' = "done"
    /\ UNCHANGED << i, groupLocals, issued >>
FailGroup(step) ==
    /\ failures' = failures + 1
    /\ failedGroups' = failedGroups \cup {<<i, step>>}
    /\ LeaveGroup

\* lines 79, 89, 198, 218, 233: the wrapper only logs when DRY_RUN is set
NeverSimulated(dry) == FALSE
Simulated(dry) == dry

\* ------------------------------------------------------- start of main()
\* lines 286-292
AfterPingIgnoringFailure(ok) == "scan"
AfterPing(ok) == IF ok THEN "scan" ELSE "aborted"

Ping ==
    /\ pc = "ping"
    /\ \E ok \in BOOLEAN :
         /\ pingResult' = (IF ok THEN "ok" ELSE "failed")
         /\ pc' = AfterPing(ok)
    /\ UNCHANGED << walk, groups, DRY_RUN, ckptFile, remoteIdx, raised,
                    resume_index, asset_album_index, local_files_with_hash,
                    existing_assets_map, chunk_start, i, failures, groupLocals,
                    issued, failedGroups, writeFailed, visited >>

\* lines 294-307: scan, return when nothing was found, read the checkpoint
Scan ==
    /\ pc = "scan"
    /\ IF groups = <<>>
       THEN /\ pc' = "empty"
            /\ UNCHANGED resume_index
       ELSE /\ pc' = "album_index"
            /\ \/ resume_index' = LoadCheckpoint(ckptFile)
               \/ ckptFile.exists /\ resume_index' = 0      \* read_text raised
    /\ UNCHANGED << walk, groups, DRY_RUN, ckptFile, remoteIdx, raised, pingResult,
                    asset_album_index, local_files_with_hash,
                    existing_assets_map, chunk_start, i, failures, groupLocals,
                    issued, failedGroups, writeFailed, visited >>

\* lines 152-186, 309-311: asset id -> album ids; {} when the listing fails
AlbumLists == { <<Alb1>> }
AlbumIndexChoices == UNION { [S -> AlbumLists] : S \in SUBSET OldIds }

BuildAlbumIndex ==
    /\ pc = "album_index"
    /\ asset_album_index' \in AlbumIndexChoices
    /\ pc' = "hash"
    /\ UNCHANGED << walk, groups, DRY_RUN, ckptFile, remoteIdx, raised, pingResult,
                    resume_index, local_files_with_hash,
                    existing_assets_map, chunk_start, i, failures, groupLocals,
                    issued, failedGroups, writeFailed, visited >>

\* lines 313-324: sha1_b64 (lines 54-60) lets the error of a file it cannot
\* open or read propagate; the list then holds the files hashed before it
HashFiles ==
    /\ pc = "hash"
    /\ \/ /\ local_files_with_hash' = HashAll(1)
          /\ existing_assets_map' = EmptyDict
          /\ chunk_start' = 0
          /\ pc' = "precheck"
          /\ UNCHANGED raised
       \/ \E n \in 1..Len(HashAll(1)) :                  \* the n-th file is unreadable
             /\ local_files_with_hash' = SubSeq(HashAll(1), 1, n - 1)
             /\ Crash("sha1_b64")
             /\ UNCHANGED << existing_assets_map, chunk_start >>
    /\ UNCHANGED << walk, groups, DRY_RUN, ckptFile, remoteIdx, pingResult,
                    resume_index, asset_album_index, i, failures, groupLocals,
                    issued, failedGroups, writeFailed, visited >>

\* lines 325-341: one iteration of the pre-check loop; bulk_upload_check
\* (lines 63-71) lets a transport error or an error status propagate
PrecheckChunk ==
    /\ pc = "precheck"
    /\ \/ /\ existing_assets_map' =
                Absorb(existing_assets_map, local_files_with_hash,
                       CheckAnswer(remoteIdx, Chunk(local_files_with_hash, chunk_start)), 1)
          /\ chunk_start' = chunk_start + API_CHUNK
          /\ IF chunk_start + API_CHUNK >= Len(local_files_with_hash)
             THEN pc' = "loop" /\ i' = 0 /\ failures' = 0
             ELSE UNCHANGED << pc, i, failures >>
          /\ UNCHANGED raised
       \/ /\ Crash("precheck")
          /\ UNCHANGED << existing_assets_map, chunk_start, i, failures >>
    /\ UNCHANGED << walk, groups, DRY_RUN, ckptFile, remoteIdx, pingResult,
                    resume_index, asset_album_index, local_files_with_hash,
                    groupLocals, issued, failedGroups, writeFailed, visited >>

\* ------------------------------------------------------------ group loop
UNCH_ENV == UNCHANGED << walk, groups, DRY_RUN, pingResult, resume_index, asset_album_index,
                         local_files_with_hash, existing_assets_map, chunk_start >>

\* lines 532-535: the loop is over, the status line is printed
LoopDone ==
    /\ pc = "loop"
    /\ i >= Len(groups)
    /\ pc' = "done"
    /\ UNCH_ENV
    /\ UNCHANGED << ckptFile, remoteIdx, raised, i, failures, groupLocals,
                    issued, failedGroups, writeFailed, visited >>

\* line 343: the groups below the mark are passed over
SkipsOneLess(idx, mark) == idx + 1 < mark
Skips(idx, mark) == idx < mark

\* lines 343-344
SkipGroup ==
    /\ pc = "loop"
    /\ i < Len(groups)
    /\ Skips(i, resume_index)
    /\ i' = i + 1
    /\ UNCH_ENV
    /\ UNCHANGED << ckptFile, remoteIdx, pc, raised, failures, groupLocals,
                    issued, failedGroups, writeFailed, visited >>

\* lines 345-363
EnterGroup ==
    /\ pc = "loop"
    /\ i < Len(groups)
    /\ ~Skips(i, resume_index)
    /\ IF CurFiles = <<>>
       THEN /\ i' = i + 1
            /\ UNCHANGED << pc, groupLocals >>
       ELSE /\ pc' = "resolve"
            /\ fpos' = 1
            /\ ids_to_delete' = <<>>
            /\ saved_state' = NoState
            /\ old_asset_id_by_file' = EmptyDict
            /\ polls' = 0
            /\ tries' = 0
            /\ new_edited' = None
            /\ new_orig' = None
    /\ unique_ids_to_delete' = <<>>
    /\ refreshed_orig' = "unset"
            /\ UNCHANGED i
    /\ visited' = Append(visited, i)
    /\ UNCH_ENV
    /\ UNCHANGED << ckptFile, remoteIdx, raised, failures,
                    issued, failedGroups, writeFailed >>

\* lines 371-383: what one get_asset answer adds to saved_state
Snapshot(state, asset_id, is_fav, albs) ==
    [ favorite_ids |-> IF is_fav THEN state.favorite_ids \cup {asset_id}
                       ELSE state.favorite_ids,
      albums |-> IF albs # <<>> /\ state.albums = <<>> THEN albs ELSE state.albums ]

\* line 371
NeedsFetchUntilAnyCapture(state, asset_id) ==
    state.albums = <<>> /\ state.favorite_ids = {}
NeedsFetch(state, asset_id) ==
    state.albums = <<>> \/ asset_id \notin state.favorite_ids

\* line 372: get_asset(asset_id) for the file at position k of files_to_upload
SnapshotFetch(asset_id, k) == Call("get_asset", TRUE, asset_id, {k})

\* line 385: list(set(ids_to_delete)), here in ascending order
RECURSIVE Ascending(_)
Ascending(S) ==
    IF S = {} THEN <<>>
    ELSE LET m == CHOOSE x \in S : \A y \in S : x <= y
         IN <<m>> \o Ascending(S \ {m})
UniqueKeepsAll(ids) == ids
Unique(ids) == Ascending(Range(ids))

\* line 385-386, 426: where the group goes once every file is resolved
AfterResolve(ids) == IF Unique(ids) # <<>> THEN "delete" ELSE "upload"

\* line 368: existing_assets_map[checksum]["id"]
AssetNowHolding(checksum) == remoteIdx[checksum]
OldAssetOf(checksum) == existing_assets_map[checksum].id

\* lines 365-383: one iteration of the loop over files_to_upload
Resolve ==
    /\ pc = "resolve"
    /\ LET f == CurFiles[fpos]
           checksum == Sha1(G, f)
           asset_id == OldAssetOf(checksum)
           ids == IF checksum \in DOMAIN existing_assets_map
                  THEN Append(ids_to_delete, asset_id) ELSE ids_to_delete
       IN /\ ids_to_delete' = ids
          /\ IF checksum \in DOMAIN existing_assets_map
             THEN /\ old_asset_id_by_file' = Put(old_asset_id_by_file, f, asset_id)
                  /\ IF NeedsFetch(saved_state, asset_id)
                     THEN /\ issued' = issued \cup {SnapshotFetch(asset_id, fpos)}
                          /\ \/ UNCHANGED saved_state          \* get_asset gave None
                             \/ \E is_fav \in BOOLEAN :
                                  saved_state' =
                                    Snapshot(saved_state, asset_id, is_fav,
                                             Get(asset_album_index, asset_id, <<>>))
                     ELSE UNCHANGED << issued, saved_state >>
             ELSE UNCHANGED << old_asset_id_by_file, issued, saved_state >>
          /\ IF fpos = Len(CurFiles)
             THEN /\ unique_ids_to_delete' = Unique(ids)
                  /\ pc' = AfterResolve(ids)
                  /\ UNCHANGED fpos
             ELSE /\ fpos' = fpos + 1
                  /\ UNCHANGED << pc, unique_ids_to_delete >>
    /\ UNCH_ENV
    /\ UNCHANGED << ckptFile, remoteIdx, raised, i, failures, polls, tries,
                    new_edited, new_orig, refreshed_orig, failedGroups, writeFailed,
                    visited >>

\* the remote store forgets the assets with the given ids
Forget(idx, ids) == [c \in DOMAIN idx |-> IF idx[c] \in ids THEN None ELSE idx[c]]

\* lines 74-84, 396: asset_delete_many(unique_ids_to_delete)
DeleteOld ==
    /\ pc = "delete"
    /\ LET ids == Range(unique_ids_to_delete)
       IN IF Simulated(DRY_RUN)
          THEN /\ issued' = issued \cup {Call("delete", FALSE, None, ids)}
               /\ pc' = "trash"
               /\ UNCHANGED << remoteIdx, raised >>
          ELSE /\ issued' = issued \cup {Call("delete", TRUE, None, ids)}
               /\ \/ /\ remoteIdx' = Forget(remoteIdx, ids)       \* 200 / 204
                     /\ pc' = "trash"
                     /\ UNCHANGED raised
                  \/ /\ pc' = "trash"                             \* other status: warning
                     /\ UNCHANGED << remoteIdx, raised >>
                  \/ /\ Crash("asset_delete_many")                \* transport error
                     /\ UNCHANGED remoteIdx
    /\ UNCH_ENV
    /\ UNCHANGED << ckptFile, i, failures, groupLocals, failedGroups, writeFailed, visited >>

\* lines 87-94, 398: empty_trash()
EmptyTrash ==
    /\ pc = "trash"
    /\ IF Simulated(DRY_RUN)
       THEN /\ issued' = issued \cup {Call("empty_trash", FALSE, None, {})}
            /\ pc' = "verify"
            /\ UNCHANGED raised
       ELSE /\ issued' = issued \cup {Call("empty_trash", TRUE, None, {})}
            /\ \/ pc' = "verify" /\ UNCHANGED raised              \* ok, or a warning
               \/ Crash("empty_trash")                            \* transport error
    /\ UNCH_ENV
    /\ UNCHANGED << ckptFile, remoteIdx, i, failures, groupLocals,
                    failedGroups, writeFailed, visited >>

\* the duplicate index of the store is eventually consistent: until it has
\* caught up it still answers with the assets the pre-check saw
LaggingIdx ==
    [c \in DOMAIN remoteIdx |->
        IF remoteIdx[c] = None /\ c \in DOMAIN existing_assets_map
        THEN existing_assets_map[c].id ELSE remoteIdx[c]]

\* line 403
HashesToCheck == [k \in 1..Len(CurFiles) |-> <<Path(G, CurFiles[k]), Sha1(G, CurFiles[k])>>]

\* line 406: range(10) is used up after the attempt that made `made` attempts
VerifyExhaustedLate(made) == made > VERIFY_RETRIES
VerifyExhausted(made) == made >= VERIFY_RETRIES

\* line 409
Cleared(results) == \A k \in 1..Len(results) : results[k].action = "accept"

\* lines 405-424: one attempt of the verify-clear loop, with the exit taken
\* after the last one
VerifyPoll ==
    /\ pc = "verify"
    /\ \/ /\ \E view \in {remoteIdx, LaggingIdx} :
               IF Cleared(CheckAnswer(view, HashesToCheck))
               THEN /\ pc' = "upload"
                    /\ polls' = 0                \* the loop variable is dead after break
                    /\ UNCHANGED << i, failures, failedGroups, inGroup >>
               ELSE IF VerifyExhausted(polls + 1)
                    THEN FailGroup("verify")
                    ELSE /\ polls' = polls + 1
                         /\ UNCHANGED << pc, i, failures, failedGroups, inGroup >>
          /\ UNCHANGED raised
       \/ /\ Crash("verify")
          /\ UNCHANGED << i, failures, failedGroups, groupLocals, issued >>
    /\ UNCH_ENV
    /\ UNCHANGED << ckptFile, remoteIdx, writeFailed, visited >>

\* ----------------------------------------------------------------- ingest
\* the upload command creates an asset for every file whose content the
\* store does not hold yet
RECURSIVE Ingest(_, _, _, _)
Ingest(idx, g, files, k) ==
    IF k > Len(files) THEN idx
    ELSE LET c == Sha1(g, files[k])
         IN Ingest(IF idx[c] = None THEN [idx EXCEPT ![c] = NewId(g, files[k])] ELSE idx,
                   g, files, k + 1)

NoFile == "-"
\* lines 452-463: the pair of files whose new assets are looked up
HasPhotos(grp) == grp.edited_photo # 0 \/ grp.original_photo # 0
EditedAssetFile(grp) ==
    IF HasPhotos(grp)
    THEN (IF grp.edited_photo # 0 THEN "edited_photo" ELSE NoFile)
    ELSE (IF grp.edited_video # 0 THEN "edited_video" ELSE NoFile)
OriginalAssetFile(grp) ==
    IF HasPhotos(grp)
    THEN (IF grp.original_photo # 0 THEN "original_photo" ELSE NoFile)
    ELSE (IF grp.original_video # 0 THEN "original_video" ELSE NoFile)

\* lines 465-468: the first wait_for_asset that runs
FirstSearch(grp) == IF EditedAssetFile(grp) # NoFile THEN "settle_edited" ELSE "settle_orig"

\* lines 427-431: the command line, with --dry-run when DRY_RUN is set
UploadCmd(dry) == [dry_run |-> dry, files |-> CurFiles]

\* the store after the command exited 0
Uploaded(cmd, idx) == IF cmd.dry_run THEN idx ELSE Ingest(idx, G, cmd.files, 1)

\* lines 426-449: the upload command and the exits after it
Upload ==
    /\ pc = "upload"
    /\ \/ /\ FailGroup("ingest")                         \* exit_code != 0
          /\ UNCHANGED remoteIdx
       \/ /\ DRY_RUN                                     \* exit 0, line 444
          /\ LeaveGroup
          /\ remoteIdx' = Uploaded(UploadCmd(DRY_RUN), remoteIdx)
          /\ UNCHANGED << failures, failedGroups >>
       \/ /\ ~DRY_RUN                                    \* exit 0
          /\ issued' = issued \cup {Call("upload", ~UploadCmd(DRY_RUN).dry_run, None, {})}
          /\ remoteIdx' = Uploaded(UploadCmd(DRY_RUN), remoteIdx)
          /\ pc' = FirstSearch(CurGroup)
          /\ tries' = 0
          /\ UNCHANGED << i, failures, failedGroups, fpos, ids_to_delete, saved_state,
                          old_asset_id_by_file, polls, new_edited, new_orig,
                          unique_ids_to_delete, refreshed_orig >>
    /\ UNCH_ENV
    /\ UNCHANGED << ckptFile, raised, writeFailed, visited >>

\* lines 475-482: main_asset = new_edited or new_orig
MainAsset(ne, no) == IF ne # None THEN ne ELSE no

AfterSettle(ne, no) ==
    IF MainAsset(ne, no) = None
    THEN FailGroup("settle")
    ELSE /\ pc' = "relink"
         /\ new_edited' = ne
         /\ new_orig' = no
         /\ tries' = 0
         /\ UNCHANGED << i, failures, failedGroups, inSettle >>

\* line 244: range(SEARCH_RETRIES) is used up after `made` attempts
SearchNeverExhausted(made) == FALSE
SearchExhausted(made) == made >= SEARCH_RETRIES

\* lines 243-250, 467: one attempt of wait_for_asset(edited_asset_file.name)
SettleEdited ==
    /\ pc = "settle_edited"
    /\ \E found \in {None, NewId(G, EditedAssetFile(CurGroup))} :
         IF found = None /\ ~SearchExhausted(tries + 1)
         THEN /\ tries' = tries + 1
              /\ UNCHANGED << pc, i, failures, failedGroups, new_edited, new_orig, inSettle >>
         ELSE IF OriginalAssetFile(CurGroup) # NoFile
              THEN /\ pc' = "settle_orig"
                   /\ new_edited' = found
                   /\ tries' = 0
                   /\ UNCHANGED << i, failures, failedGroups, new_orig, inSettle >>
              ELSE AfterSettle(found, None)
    /\ UNCH_ENV
    /\ UNCHANGED << ckptFile, remoteIdx, raised, writeFailed, visited >>

\* ids the name search can give for the original file
OrigAnswers ==
    {None, NewId(G, OriginalAssetFile(CurGroup))}
      \cup (IF new_edited # None THEN {new_edited} ELSE {})

\* lines 243-250, 468: one attempt of wait_for_asset(original_asset_file.name)
SettleOrig ==
    /\ pc = "settle_orig"
    /\ \E found \in OrigAnswers :
         IF found = None /\ ~SearchExhausted(tries + 1)
         THEN /\ tries' = tries + 1
              /\ UNCHANGED << pc, i, failures, failedGroups, new_edited, new_orig, inSettle >>
         ELSE AfterSettle(new_edited, found)
    /\ UNCH_ENV
    /\ UNCHANGED << ckptFile, remoteIdx, raised, writeFailed, visited >>

\* line 487
WantsStack(ne, no) == ne # None /\ no # None /\ no # MainAsset(ne, no)

\* what get_asset(new_orig["id"]) can answer: nothing, an asset that has a
\* stackParentId, an asset that has none
RefreshAnswers == {"none", "stacked", "free"}
\* line 489
ShouldStackUnlessNoAnswer(refreshed) == refreshed # "none"
ShouldStack(refreshed) == refreshed = "free"

\* lines 484-491, 189-205: re-fetch the original and stack it under the edited
Relink ==
    /\ pc = "relink"
    /\ IF WantsStack(new_edited, new_orig)
       THEN \E answer \in RefreshAnswers :
              /\ refreshed_orig' = answer
              /\ IF ShouldStack(answer)
                 THEN /\ issued' = issued \cup
                            { Call("get_asset", TRUE, new_orig, {}),
                              Call("stack", ~Simulated(DRY_RUN),
                                   MainAsset(new_edited, new_orig), {new_orig}) }
                      /\ \/ pc' = "favorite" /\ UNCHANGED raised      \* ok, or a warning
                         \/ ~Simulated(DRY_RUN) /\ Crash("stack_assets")   \* transport error
                 ELSE /\ issued' = issued \cup {Call("get_asset", TRUE, new_orig, {})}
                      /\ pc' = "favorite"
                      /\ UNCHANGED raised
       ELSE /\ pc' = "favorite"
            /\ UNCHANGED << issued, raised, refreshed_orig >>
    /\ UNCH_ENV
    /\ UNCHANGED << ckptFile, remoteIdx, i, failures, fpos, ids_to_delete, saved_state,
                    old_asset_id_by_file, polls, tries, new_edited, new_orig,
                    unique_ids_to_delete, failedGroups, writeFailed, visited >>

OldIdOf(file) == IF file = NoFile THEN None ELSE Get(old_asset_id_by_file, file, None)

\* lines 494-503: favorite_new_ids as a set
FavoriteNewIdsAll ==
    {id \in {new_edited, new_orig} : id # None}
FavoriteNewIds ==
    (IF new_edited # None /\ EditedAssetFile(CurGroup) # NoFile
        /\ OldIdOf(EditedAssetFile(CurGroup)) \in saved_state.favorite_ids
     THEN {new_edited} ELSE {})
    \cup
    (IF new_orig # None /\ OriginalAssetFile(CurGroup) # NoFile
        /\ OldIdOf(OriginalAssetFile(CurGroup)) \in saved_state.favorite_ids
     THEN {new_orig} ELSE {})

IssuedFor(op) == {c \in issued : c.op = op /\ c.g = i}

\* lines 504-506, 230-240: one set_favorite call of the loop, or its end
RestoreFavorite ==
    /\ pc = "favorite"
    /\ LET pending == FavoriteNewIds \ {c.tgt : c \in IssuedFor("set_favorite")}
       IN IF pending = {}
          THEN /\ pc' = "albums"
               /\ UNCHANGED << issued, raised >>
          ELSE \E id \in pending :
                 /\ issued' = issued \cup {Call("set_favorite", ~Simulated(DRY_RUN), id, {})}
                 /\ \/ UNCHANGED << pc, raised >>              \* ok, or a warning
                    \/ ~Simulated(DRY_RUN) /\ Crash("set_favorite")   \* transport error
    /\ UNCH_ENV
    /\ UNCHANGED << ckptFile, remoteIdx, i, failures, groupLocals,
                    failedGroups, writeFailed, visited >>

SeqRange(q) == {q[k] : k \in 1..Len(q)}

\* lines 508-517: albums of the old asset of one file of the pair
AlbumsVia(new, file) ==
    IF new # None /\ file # NoFile /\ OldIdOf(file) # None
    THEN SeqRange(Get(asset_album_index, OldIdOf(file), <<>>))
    ELSE {}

\* lines 507-517: album id -> new asset ids to add to it
AlbumToNewAssets ==
    [alb \in AlbumsVia(new_edited, EditedAssetFile(CurGroup))
               \cup AlbumsVia(new_orig, OriginalAssetFile(CurGroup)) |->
        (IF alb \in AlbumsVia(new_edited, EditedAssetFile(CurGroup)) THEN {new_edited} ELSE {})
        \cup
        (IF alb \in AlbumsVia(new_orig, OriginalAssetFile(CurGroup)) THEN {new_orig} ELSE {})]

\* lines 519-524, 208-227: one add_to_albums call of the loop, or its end
RestoreAlbums ==
    /\ pc = "albums"
    /\ LET pending == DOMAIN AlbumToNewAssets \ {c.tgt : c \in IssuedFor("add_to_album")}
       IN IF pending = {}
          THEN /\ pc' = "checkpoint"
               /\ UNCHANGED << issued, raised >>
          ELSE \E alb \in pending :
                 /\ issued' = issued \cup
                       {Call("add_to_album", ~Simulated(DRY_RUN), alb, AlbumToNewAssets[alb])}
                 /\ \/ UNCHANGED << pc, raised >>              \* 200, or an error status
                    \/ ~Simulated(DRY_RUN) /\ Crash("add_to_albums")  \* transport error
    /\ UNCH_ENV
    /\ UNCHANGED << ckptFile, remoteIdx, i, failures, groupLocals,
                    failedGroups, writeFailed, visited >>

\* lines 526-530: write the mark; a failing write is swallowed
Checkpoint ==
    /\ pc = "checkpoint"
    /\ IF ~DRY_RUN
       THEN \/ /\ ckptFile' = [exists |-> TRUE, text |-> Str(CheckpointMark(i))]
               /\ UNCHANGED writeFailed
            \/ /\ writeFailed' = TRUE
               /\ UNCHANGED ckptFile
       ELSE UNCHANGED << ckptFile, writeFailed, visited >>
    /\ LeaveGroup
    /\ UNCH_ENV
    /\ UNCHANGED << remoteIdx, raised, failures, failedGroups, visited >>

\* ---------------------------------------------------------------- restart
\* main() is started again on the same tree, checkpoint file and store, any
\* number of times
Restart ==
    /\ pc \in Stopped
    /\ pc' = "ping"
    /\ raised' = "none"
    /\ pingResult' = "pending"
    /\ resume_index' = 0
    /\ asset_album_index' = EmptyDict
    /\ local_files_with_hash' = <<>>
    /\ existing_assets_map' = EmptyDict
    /\ chunk_start' = 0
    /\ i' = 0
    /\ failures' = 0
    /\ fpos' = 1
    /\ ids_to_delete' = <<>>
    /\ saved_state' = NoState
    /\ old_asset_id_by_file' = EmptyDict
    /\ polls' = 0
    /\ tries' = 0
    /\ new_edited' = None
    /\ new_orig' = None
    /\ unique_ids_to_delete' = <<>>
    /\ refreshed_orig' = "unset"
    /\ issued' = {}
    /\ failedGroups' = {}
    /\ writeFailed' = FALSE
    /\ visited' = <<>>
    /\ UNCHANGED << walk, groups, DRY_RUN, ckptFile, remoteIdx >>

Next ==
    \/ Ping
    \/ Scan
    \/ BuildAlbumIndex
    \/ HashFiles
    \/ PrecheckChunk
    \/ LoopDone
    \/ SkipGroup
    \/ EnterGroup
    \/ Resolve
    \/ DeleteOld
    \/ EmptyTrash
    \/ VerifyPoll
    \/ Upload
    \/ SettleEdited
    \/ SettleOrig
    \/ Relink
    \/ RestoreFavorite
    \/ RestoreAlbums
    \/ Checkpoint
    \/ Restart

Spec == Init /\ [][Next]_vars

\* ------------------------------------------- index_asset_groups on its own
mainVars == << groups, DRY_RUN, ckptFile, remoteIdx, pc, raised, pingResult,
               resume_index, asset_album_index, local_files_with_hash,
               existing_assets_map, chunk_start, i, failures, fpos, ids_to_delete,
               saved_state, old_asset_id_by_file, polls, tries, new_edited,
               new_orig, unique_ids_to_delete, refreshed_orig, issued, failedGroups,
               writeFailed, visited >>

IndexInit ==
    /\ walk \in { [files |-> t, pos |-> 0, groups |-> <<>>] : t \in Trees }
    /\ pc = "index"
    /\ groups = <<>>
    /\ DRY_RUN = FALSE
    /\ ckptFile = [exists |-> FALSE, text |-> <<>>]
    /\ remoteIdx = [c \in Checksums |-> None]
    /\ raised = "none"
    /\ pingResult = "ok"
    /\ resume_index = 0
    /\ asset_album_index = EmptyDict
    /\ local_files_with_hash = <<>>
    /\ existing_assets_map = EmptyDict
    /\ chunk_start = 0
    /\ i = 0
    /\ failures = 0
    /\ fpos = 1
    /\ ids_to_delete = <<>>
    /\ saved_state = NoState
    /\ old_asset_id_by_file = EmptyDict
    /\ polls = 0
    /\ tries = 0
    /\ new_edited = None
    /\ new_orig = None
    /\ unique_ids_to_delete = <<>>
    /\ refreshed_orig = "unset"
    /\ issued = {}
    /\ failedGroups = {}
    /\ writeFailed = FALSE
    /\ visited = <<>>

\* lines 257-279: the walk takes the next file
IndexFile ==
    /\ pc = "index"
    /\ walk.pos < Len(walk.files)
    /\ walk' = [walk EXCEPT !.pos = @ + 1,
                            !.groups = IndexOne(@, walk.files[walk.pos + 1])]
    /\ UNCHANGED mainVars

\* line 281: return list(groups.values())
IndexReturn ==
    /\ pc = "index"
    /\ walk.pos = Len(walk.files)
    /\ pc' = "indexed"
    /\ UNCHANGED << walk, groups, DRY_RUN, ckptFile, remoteIdx, raised, pingResult,
                    resume_index, asset_album_index, local_files_with_hash,
                    existing_assets_map, chunk_start, i, failures, groupLocals,
                    issued, failedGroups, writeFailed, visited >>

\* ------------------------------------------------------- one run of main()
\* a single run, started with no checkpoint file or with the mark of an
\* earlier run
RunInit ==
    Start({ [exists |-> FALSE, text |-> <<>>],
            [exists |-> TRUE, text |-> Str(1)] })

RunNext ==
    \/ Ping
    \/ Scan
    \/ BuildAlbumIndex
    \/ HashFiles
    \/ PrecheckChunk
    \/ LoopDone
    \/ SkipGroup
    \/ EnterGroup
    \/ Resolve
    \/ DeleteOld
    \/ EmptyTrash
    \/ VerifyPoll
    \/ Upload
    \/ SettleEdited
    \/ SettleOrig
    \/ Relink
    \/ RestoreFavorite
    \/ RestoreAlbums
    \/ Checkpoint

\* main() runs on its own thread and every call it makes returns (each request
\* has a timeout, each loop a bound), so a step that can be taken is taken
FairSpec == RunInit /\ [][RunNext]_vars /\ WF_vars(RunNext)

IndexNext == IndexFile \/ IndexReturn
IndexSpec == IndexInit /\ [][IndexNext]_vars

TypeOK ==
    /\ pc \in {"ping", "scan", "album_index", "hash", "precheck", "loop", "resolve",
               "delete", "trash", "verify", "upload", "settle_edited", "settle_orig",
               "relink", "favorite", "albums", "checkpoint"} \cup Stopped
    /\ i \in 0..Len(groups)
    /\ failures \in 0..Len(groups)
    /\ polls \in 0..VERIFY_RETRIES
    /\ tries \in 0..SEARCH_RETRIES

\* ================================================================= claims
MutatingOps == {"delete", "empty_trash", "set_favorite", "stack", "add_to_album", "upload"}
InLoop == {"loop", "resolve", "delete", "trash", "verify", "upload", "settle_edited",
           "settle_orig", "relink", "favorite", "albums", "checkpoint", "done"}
Persisted == LoadCheckpoint(ckptFile)
FailedIndexes == {f[1] : f \in failedGroups}
FirstFailed == CHOOSE j \in FailedIndexes : \A k \in FailedIndexes : j <= k

\* C1: a non-dry run started from mark 0 in which some group failed ends with
\* the persisted checkpoint equal to the index of the first failed group, also
\* when later groups completed.
C1_CheckpointStopsAtFailedGroup ==
    (pc = "done" /\ ~DRY_RUN /\ resume_index = 0 /\ ~writeFailed /\ failedGroups # {})
        => Persisted = FirstFailed

\* C2: in a non-dry run started from mark 0 in which no group failed and every
\* checkpoint write succeeded, the persisted checkpoint is i + 1 once group i
\* is complete, hence the number of groups when the run ends.
C2_CheckpointFollowsCompletedGroups ==
    (~DRY_RUN /\ resume_index = 0 /\ failedGroups = {} /\ ~writeFailed
        /\ pc \in InLoop /\ i > 0)
        => Persisted = i

C2_Witness ==
    /\ pc = "done" /\ ~DRY_RUN /\ resume_index = 0 /\ failedGroups = {} /\ ~writeFailed
    /\ Len(groups) = 2 /\ i = 2
    /\ Persisted = 2

\* C3: with DRY_RUN set no mutating call is really made (each is a logged
\* simulation), the store is not changed and the checkpoint file is not written.
C3_DryRunIssuesNothing ==
    /\ [](DRY_RUN => \A c \in issued : c.op \in MutatingOps => ~c.real)
    /\ [][DRY_RUN => (remoteIdx' = remoteIdx /\ ckptFile' = ckptFile)]_vars

C3_Witness ==
    /\ DRY_RUN /\ pc = "verify" /\ polls = 3
    /\ Call("delete", FALSE, None, Range(ids_to_delete)) \in issued
    /\ Call("empty_trash", FALSE, None, {}) \in issued

\* C4: verify-clear makes at most 10 duplicate checks for a group; no upload
\* happens while the store still reports a duplicate, and when the 10th check
\* still does, the group is counted as failed and the loop moves to the next
\* group without upload, relink, restore or checkpoint.
C4_VerifyClearBound ==
    /\ [](pc = "verify" => (polls < VERIFY_RETRIES /\ IssuedFor("upload") = {}))
    /\ [][(pc = "verify" /\ ~Cleared(CheckAnswer(remoteIdx, HashesToCheck)))
             => pc' # "upload"]_vars
    /\ [][(pc = "verify" /\ polls = VERIFY_RETRIES - 1 /\ pc' \notin {"upload", "crashed", "verify"})
             => /\ pc' = "loop" /\ i' = i + 1
                /\ failures' = failures + 1
                /\ <<i, "verify">> \in failedGroups'
                /\ ckptFile' = ckptFile
                /\ remoteIdx' = remoteIdx]_vars

C4_Witness ==
    /\ pc = "loop" /\ i = 1 /\ ~DRY_RUN
    /\ <<0, "verify">> \in failedGroups
    /\ failures = 1

\* C5 as stated: at the checkpoint step, every file of the group (any of
\* the four slots) whose old asset was snapshotted as a favorite has had
\* set_favorite issued for the new asset made from it.
C5_FavoriteRestoredForEverySlot ==
    pc = "checkpoint" =>
        \A s \in Slots :
            (CurGroup[s] # 0 /\ OldIdOf(s) \in saved_state.favorite_ids)
                => \E c \in IssuedFor("set_favorite") : c.real /\ c.tgt = NewId(G, s)

PairFiles == {EditedAssetFile(CurGroup), OriginalAssetFile(CurGroup)} \ {NoFile}
NewOf(file) == IF file = EditedAssetFile(CurGroup) THEN new_edited ELSE new_orig

\* C5 amended: at the checkpoint step, for the two files of the looked-up
\* pair (the photos when the group has a photo, else the videos): set_favorite
\* has been issued for the new identity found for a file exactly when that
\* file's old asset was snapshotted as a favorite.
C5_FavoriteRestoredForFoundPair ==
    pc = "checkpoint" =>
        /\ \A f \in PairFiles :
              (NewOf(f) # None /\ OldIdOf(f) \in saved_state.favorite_ids)
                 => \E c \in IssuedFor("set_favorite") : c.real /\ c.tgt = NewOf(f)
        /\ \A c \in IssuedFor("set_favorite") :
              \E f \in PairFiles :
                 NewOf(f) = c.tgt /\ OldIdOf(f) \in saved_state.favorite_ids

C5_Witness ==
    /\ pc = "checkpoint"
    /\ new_edited # None /\ new_orig # None /\ new_edited # new_orig
    /\ OldIdOf(EditedAssetFile(CurGroup)) \notin saved_state.favorite_ids
    /\ OldIdOf(OriginalAssetFile(CurGroup)) \in saved_state.favorite_ids
    /\ {c.tgt : c \in IssuedFor("set_favorite")} = {new_orig}

\* C6: when Settle found a new identity for both the edited and the original
\* file, every album of the group's snapshot has had, at the checkpoint step,
\* an add-to-album call carrying both of them; so also when only the original
\* file matched an old asset.
C6_AllNewIdsJoinSnapshotAlbums ==
    (pc = "checkpoint" /\ new_edited # None /\ new_orig # None) =>
        \A alb \in SeqRange(saved_state.albums) :
            \E c \in IssuedFor("add_to_album") :
                c.tgt = alb /\ c.ids = {new_edited, new_orig}

\* C7: no failure of a remote call leaves main() as an exception.
RemoteCallSites == {"precheck", "asset_delete_many", "empty_trash", "verify",
                    "stack_assets", "set_favorite", "add_to_albums"}
C7_NoRemoteFailureRaised == ~(pc = "crashed" /\ raised \in RemoteCallSites)

\* C8: a pre-check chunk whose call fails after earlier chunks gave results
\* does not end the run with those results lost.
C8_ChunkFailureKeepsEarlierResults ==
    ~(raised = "precheck" /\ chunk_start > 0 /\ DOMAIN existing_assets_map # {})

\* C9: throughout the pre-check the map built chunk by chunk equals the map one
\* call over all files sent so far gives, every chunk has at most API_CHUNK
\* items, and after the last chunk all files have been sent.
FilesSent == SubSeq(local_files_with_hash, 1, Min(chunk_start, Len(local_files_with_hash)))
SingleCallMap(files) ==
    Absorb(EmptyDict, local_files_with_hash, CheckAnswer(remoteIdx, files), 1)

C9_ChunkedEqualsUnchunked ==
    /\ pc = "precheck" =>
          /\ existing_assets_map = SingleCallMap(FilesSent)
          /\ Len(Chunk(local_files_with_hash, chunk_start)) \in 1..API_CHUNK
    /\ (pc = "loop" /\ i = 0) =>
          existing_assets_map = SingleCallMap(local_files_with_hash)

C9_Witness ==
    /\ pc = "loop" /\ i = 0
    /\ Len(local_files_with_hash) > API_CHUNK
    /\ Cardinality(DOMAIN existing_assets_map) = 2

\* C10: after a failed ping the run has stopped without hashing, checking or
\* calling anything, and neither the store nor the checkpoint file changes.
C10_PingFailureAborts ==
    /\ [](pingResult = "failed" =>
            /\ pc = "aborted"
            /\ issued = {}
            /\ local_files_with_hash = <<>>
            /\ existing_assets_map = EmptyDict
            /\ asset_album_index = EmptyDict)
    /\ [][pingResult = "failed" => (ckptFile' = ckptFile /\ remoteIdx' = remoteIdx)]_vars

C10_Witness == pingResult = "failed" /\ pc = "aborted" /\ groups # <<>>

\* indexes a, a+1, ..., b in order
Upto(a, b) == IF b < a THEN <<>> ELSE [k \in 1..(b - a + 1) |-> a + k - 1]
InGroupPcs == {"resolve", "delete", "trash", "verify", "upload", "settle_edited",
               "settle_orig", "relink", "favorite", "albums", "checkpoint"}
FailureSteps == {"verify", "ingest", "settle"}

\* C11: a group failure never stops the loop.  The groups announced so far
\* are exactly the indexes from the resume mark up to the current one, each
\* once and in scan order, so at the final status line every group at or
\* above the mark has been visited; a step that counts a failure goes on with
\* the next group; and the counter reported at the end is the number of
\* visited groups that left at a verify-clear, ingest or settle failure.
C11_FailuresNeverStopTheLoop ==
    /\ [](pc \in {"loop", "done"} => visited = Upto(resume_index, i - 1))
    /\ [](pc \in InGroupPcs => visited = Upto(resume_index, i))
    /\ [](pc = "done" =>
            /\ i = Len(groups)
            /\ failures = Cardinality(failedGroups)
            /\ \A f \in failedGroups :
                  f[2] \in FailureSteps /\ \E k \in 1..Len(visited) : visited[k] = f[1]
            /\ \A f1, f2 \in failedGroups : f1[1] = f2[1] => f1 = f2)
    /\ [][failures' > failures =>
             /\ failures' = failures + 1
             /\ pc' = "loop" /\ i' = i + 1
             /\ visited' = visited]_vars

C11_Witness ==
    /\ pc = "done" /\ ~DRY_RUN
    /\ visited = <<0, 1>>
    /\ failedGroups = {<<0, "ingest">>, <<1, "settle">>}
    /\ failures = 2

\* every file of every group, as the hashing loop lists them
AllFiles == UNION { { <<Path(g, s), Sha1(g, s)>> : s \in {t \in Slots : groups[g][t] # 0} } :
                    g \in 1..Len(groups) }

\* C12: with mark m read at start (0 when the checkpoint file is absent, empty,
\* unreadable or not a number) nothing is done for a group below m: no group
\* step is entered, no call is recorded, neither the store nor the checkpoint
\* file changes on its behalf; yet the album index is built and the pre-check
\* has sent the files of all groups, those below m included.
C12_NothingBelowTheMark ==
    /\ [][(pc = "scan" /\ pc' = "album_index") =>
             /\ resume_index' \in {LoadCheckpoint(ckptFile), 0}
             /\ ((~ckptFile.exists \/ ckptFile.text \in {<<>>, <<"x">>})
                    => resume_index' = 0)]_vars
    /\ [](pc \in InGroupPcs => i >= resume_index)
    /\ [](\A c \in issued : c.g >= resume_index)
    /\ [](\A k \in 1..Len(visited) : visited[k] >= resume_index)
    /\ [][(pc \in InLoop /\ (ckptFile' # ckptFile \/ remoteIdx' # remoteIdx))
             => (pc \in InGroupPcs /\ i >= resume_index)]_vars
    /\ [](pc \in InLoop =>
            /\ SeqRange(local_files_with_hash) = AllFiles
            /\ chunk_start >= Len(local_files_with_hash))

C12_Witness ==
    /\ pc = "checkpoint" /\ resume_index = 1 /\ i = 1
    /\ visited = <<1>>
    /\ \E f \in SeqRange(local_files_with_hash) : f[1][1] = 1
    /\ \A c \in issued : c.g = 1

\* what the walk has taken so far, and what of it has a known extension
WalkedPos(f) == CHOOSE k \in 1..Len(walk.files) : walk.files[k] = f
Walked == {walk.files[k] : k \in 1..walk.pos}
RecognizedWalked == {f \in Walked : Lower(f.suffix) \in PHOTO_EXT \cup VIDEO_EXT}
\* the stem lowercased, then without a trailing "_edited"
StrippedLower(stem) ==
    LET l == Lower(stem)
    IN IF EndsWith(l, edited_suffix) THEN SubSeq(l, 1, Len(l) - Len(edited_suffix)) ELSE l
BelongTogether(f1, f2) == f1.dir = f2.dir /\ StrippedLower(f1.stem) = StrippedLower(f2.stem)
\* (photo vs video) x (edited vs original)
ExpectedSlot(f) ==
    LET photo == Lower(f.suffix) \in PHOTO_EXT
        edited == EndsWith(Lower(f.stem), edited_suffix)
    IN IF photo /\ edited THEN "edited_photo"
       ELSE IF photo THEN "original_photo"
       ELSE IF edited THEN "edited_video"
       ELSE "original_video"
Held(k) == {walk.groups[k].files[x] : x \in DOMAIN walk.groups[k].files}
HeldAnywhere == UNION {Held(k) : k \in 1..Len(walk.groups)}
SameGroup(f1, f2) == \E k \in 1..Len(walk.groups) : f1 \in Held(k) /\ f2 \in Held(k)
NonEmptyGroups == \A k \in 1..Len(walk.groups) : DOMAIN walk.groups[k].files # {}

\* C13 as stated: when the indexer returns, every recognized file sits in the
\* slot of a group that its extension and suffix give, two recognized files
\* are in the same group exactly when they are in the same directory and
\* their stripped, lowercased stems are equal, and no group is empty.
C13_EveryFileInItsSlot ==
    pc = "indexed" =>
        /\ \A f \in RecognizedWalked :
              \E k \in 1..Len(walk.groups) :
                  /\ ExpectedSlot(f) \in DOMAIN walk.groups[k].files
                  /\ walk.groups[k].files[ExpectedSlot(f)] = f
        /\ \A f1, f2 \in RecognizedWalked : SameGroup(f1, f2) <=> BelongTogether(f1, f2)
        /\ NonEmptyGroups

Example4 == { File("d1", Stem_a, Ext_jpg), File("d1", Stem_a_edited, Ext_jpg),
              File("d1", Stem_a, Ext_mov), File("d1", Stem_a_edited, Ext_mov) }
ExampleCase == { File("d1", Stem_A, Ext_JPG), File("d1", Stem_a_EDITED, Ext_jpg) }

\* C13 amended: at every point of the walk, a recognized file is held by a
\* group, in the slot its extension and suffix give, unless a file walked
\* earlier that belongs with it has the same slot (the first one wins and
\* the later one is in no group); files held by groups are in the same group
\* exactly when they belong together; groups have distinct keys and at least
\* one slot filled; the four-file example gives one full group and A.JPG with
\* a_EDITED.jpg gives one group holding both.
C13_FirstFileOfASlotWins ==
    pc \in {"index", "indexed"} =>
        /\ NonEmptyGroups
        /\ \A j, k \in 1..Len(walk.groups) : j # k => walk.groups[j].key # walk.groups[k].key
        /\ HeldAnywhere \subseteq RecognizedWalked
        /\ \A k \in 1..Len(walk.groups) : \A x \in DOMAIN walk.groups[k].files :
              ExpectedSlot(walk.groups[k].files[x]) = x
        /\ \A f \in RecognizedWalked :
              LET rivals == {h \in RecognizedWalked :
                               /\ BelongTogether(h, f)
                               /\ ExpectedSlot(h) = ExpectedSlot(f)
                               /\ WalkedPos(h) < WalkedPos(f)}
              IN (f \in HeldAnywhere) <=> (rivals = {})
        /\ \A f1, f2 \in HeldAnywhere : SameGroup(f1, f2) <=> BelongTogether(f1, f2)
        /\ (pc = "indexed" /\ Walked = Example4) =>
              (Len(walk.groups) = 1 /\ DOMAIN walk.groups[1].files = Slots)
        /\ (pc = "indexed" /\ Walked = ExampleCase) =>
              (Len(walk.groups) = 1 /\ Held(1) = ExampleCase)

C13_Witness ==
    /\ pc = "indexed"
    /\ walk.files = << File("d1", Stem_a, Ext_jpg), File("d1", Stem_A, Ext_JPG),
                       File("d1", Stem_a_EDITED, Ext_jpg), File("d2", Stem_a, Ext_jpg) >>
    /\ Len(walk.groups) = 2
    /\ Held(1) = {File("d1", Stem_a, Ext_jpg), File("d1", Stem_a_EDITED, Ext_jpg)}
    /\ File("d1", Stem_A, Ext_JPG) \notin HeldAnywhere

\* the file the resolve loop is at, and the old asset it matched (None if none)
ResolvingId ==
    IF Sha1(G, CurFiles[fpos]) \in DOMAIN existing_assets_map
    THEN existing_assets_map[Sha1(G, CurFiles[fpos])].id ELSE None

\* C14 as stated: once the snapshot of the group holds a non-empty album list
\* or a captured favorite id, resolving a further file issues no snapshot fetch.
C14_NoFetchAfterFirstCapture ==
    [][(pc = "resolve" /\ (saved_state.albums # <<>> \/ saved_state.favorite_ids # {}))
          => issued' = issued]_vars

\* C14 amended: resolving a file that matched an old asset skips the snapshot
\* fetch exactly when the snapshot already holds a non-empty album list and
\* that old asset's id is a captured favorite id; a file that matched nothing
\* issues no fetch; a fetch can only add a favorite id and can only fill an
\* album list that is still empty.
C14_FetchSkippedOnlyForKnownFavorite ==
    [][pc = "resolve" =>
         /\ ResolvingId = None => (issued' = issued /\ saved_state' = saved_state)
         /\ ResolvingId # None =>
               /\ (SnapshotFetch(ResolvingId, fpos) \notin issued')
                     <=> (saved_state.albums # <<>> /\ ResolvingId \in saved_state.favorite_ids)
               /\ SnapshotFetch(ResolvingId, fpos) \notin issued' => saved_state' = saved_state
         /\ saved_state.favorite_ids \subseteq saved_state'.favorite_ids
         /\ saved_state'.favorite_ids \subseteq saved_state.favorite_ids \cup {ResolvingId}
         /\ saved_state.albums # <<>> => saved_state'.albums = saved_state.albums]_vars

C14_Witness ==
    /\ pc = "delete"
    /\ ids_to_delete = <<R1, R1>>
    /\ saved_state.albums # <<>> /\ R1 \in saved_state.favorite_ids
    /\ SnapshotFetch(R1, 1) \in issued
    /\ SnapshotFetch(R1, 2) \notin issued

\* C15: the checkpoint file is written only by the step that ends a completed
\* group, its value never decreases, and while a group is being processed the
\* persisted value is at most that group's index, so that a restart after a
\* kill inside group i does not skip group i.
C15_CheckpointNeverAheadOfCurrentGroup ==
    /\ [][ckptFile' # ckptFile => pc = "checkpoint"]_vars
    /\ [][LoadCheckpoint(ckptFile') >= LoadCheckpoint(ckptFile)]_vars
    /\ [](pc \in InGroupPcs => Persisted <= i)

StackCalls(calls) == {c \in calls : c.op = "stack"}

\* C16: the relink step issues a create-stack call exactly when settle found
\* an edited and an original identity with different ids and the re-fetched
\* original has no stack parent; the call is a real one, names the edited
\* asset as parent and the original as the only child; no other step issues
\* one, so a group has at most one.
C16_StackIffPairFoundAndUnstacked ==
    /\ [][pc = "relink" =>
             /\ (StackCalls(issued') # {}) <=>
                   /\ new_edited # None /\ new_orig # None /\ new_edited # new_orig
                   /\ refreshed_orig' = "free"
             /\ \A c \in StackCalls(issued') :
                   c.real /\ c.g = i /\ c.tgt = new_edited /\ c.ids = {new_orig}]_vars
    /\ [][pc # "relink" => StackCalls(issued') \subseteq StackCalls(issued)]_vars
    /\ [](Cardinality(StackCalls(issued)) <= 1)
    /\ [](DRY_RUN => StackCalls(issued) = {})

C16_Witness ==
    /\ pc = "favorite" /\ ~DRY_RUN
    /\ refreshed_orig = "free"
    /\ new_edited # None /\ new_orig # None
    /\ StackCalls(issued) = {Call("stack", TRUE, new_edited, {new_orig})}

NoRepeats(q) == \A j, k \in 1..Len(q) : j # k => q[j] # q[k]
OpsIssued == {c.op : c \in issued}

\* C17: when the bulk delete is called, a snapshot fetch has already been
\* issued in this group for every id it is given, and the list it is given
\* holds each resolved id once; within a group the steps come in the order
\* snapshot (resolve), delete, empty-trash, verify polls, upload.
C17_SnapshotThenDeleteThenUpload ==
    /\ [][pc = "delete" =>
             /\ \A id \in Range(unique_ids_to_delete) :
                   \E k \in 1..Len(CurFiles) : SnapshotFetch(id, k) \in issued
             /\ \A c \in issued' : c.op = "delete" =>
                   (c.g = i /\ c.ids = Range(unique_ids_to_delete))]_vars
    /\ [](pc \in {"delete", "trash", "verify"} =>
            /\ unique_ids_to_delete # <<>>
            /\ NoRepeats(unique_ids_to_delete)
            /\ Range(unique_ids_to_delete) = Range(ids_to_delete))
    /\ [](pc = "resolve" => OpsIssued \subseteq {"get_asset"})
    /\ [](pc = "delete" => OpsIssued \subseteq {"get_asset"})
    /\ [](pc = "trash" => (OpsIssued \subseteq {"get_asset", "delete"} /\ "delete" \in OpsIssued))
    /\ [](pc = "verify" => /\ OpsIssued \subseteq {"get_asset", "delete", "empty_trash"}
                           /\ {"delete", "empty_trash"} \subseteq OpsIssued)
    /\ [](pc = "upload" => /\ OpsIssued \subseteq {"get_asset", "delete", "empty_trash"}
                           /\ ("delete" \in OpsIssued <=> unique_ids_to_delete # <<>>)
                           /\ ("delete" \in OpsIssued <=> "empty_trash" \in OpsIssued))
    /\ [][/\ pc = "resolve" => pc' \in {"resolve", "delete", "upload"}
          /\ pc = "delete" => pc' \in {"trash", "crashed"}
          /\ pc = "trash" => pc' \in {"verify", "crashed"}
          /\ pc = "verify" => pc' \in {"verify", "upload", "loop", "crashed"}
          /\ pc' = "upload" => pc \in {"resolve", "verify"}]_vars

C17_Witness ==
    /\ pc = "upload" /\ ~DRY_RUN
    /\ ids_to_delete = <<R1, R1>>
    /\ unique_ids_to_delete = <<R1>>
    /\ SnapshotFetch(R1, 1) \in issued
    /\ Call("delete", TRUE, None, {R1}) \in issued
    /\ Call("empty_trash", TRUE, None, {}) \in issued

\* C18: every run ends.  A group makes at most 10 verify-clear checks and at
\* most 12 searches for each of its (at most two) sought names; the attempt
\* that uses up a bound leaves the wait, the group then completes or is
\* counted as failed, and unless a call raised the run gets to its final
\* status line (or returned earlier on a failed ping or an empty tree).
C18_RunTerminates ==
    /\ [](pc = "verify" => polls < VERIFY_RETRIES)
    /\ [](pc \in {"settle_edited", "settle_orig"} => tries < SEARCH_RETRIES)
    /\ [][(pc = "verify" /\ polls = VERIFY_RETRIES - 1) => pc' # "verify"]_vars
    /\ [][(pc = "settle_edited" /\ tries = SEARCH_RETRIES - 1) => pc' # "settle_edited"]_vars
    /\ [][(pc = "settle_orig" /\ tries = SEARCH_RETRIES - 1) => pc' # "settle_orig"]_vars
    /\ [][(pc \in InGroupPcs /\ pc' \notin InGroupPcs /\ pc' # "crashed")
             => (pc' = "loop" /\ i' = i + 1
                 /\ (pc \in {"checkpoint", "upload"} \/ failures' = failures + 1))]_vars
    /\ [][(pc \in InLoop /\ pc # "done") => pc' \in InLoop \cup {"crashed"}]_vars
    /\ <>(pc \in Stopped)

C18_Witness ==
    /\ pc = "done" /\ ~DRY_RUN /\ Len(groups) = 2
    /\ <<0, "verify">> \in failedGroups
    /\ <<1, "settle">> \in failedGroups

\* the file whose digest could not be computed: the one after those hashed
UnreadableFile == HashAll(1)[Len(local_files_with_hash) + 1][1]

\* C19: when a file of one of several groups cannot be read for hashing, the
\* run still visits every group at or above the resume mark that does not
\* contain that file, and the group that contains it is counted as failed.
C19_UnreadableFileFailsOnlyItsGroup ==
    (pc \in Stopped /\ raised = "sha1_b64" /\ Len(groups) > 1) =>
        /\ \A g \in 1..Len(groups) :
              (g # UnreadableFile[1] /\ g - 1 >= resume_index)
                 => \E k \in 1..Len(visited) : visited[k] = g - 1
        /\ UnreadableFile[1] - 1 \in FailedIndexes

\* ids the pre-check reported for the checksums of the current group's files
PrecheckIdsOfGroup ==
    { existing_assets_map[Sha1(G, CurFiles[k])].id :
        k \in {j \in 1..Len(CurFiles) : Sha1(G, CurFiles[j]) \in DOMAIN existing_assets_map} }
DeleteCalls(calls) == {c \in calls : c.op = "delete"}

\* a step keeps in the store every asset the pre-check did not report
UploadedInRunKept ==
    \A c \in Checksums :
        (remoteIdx[c] # None /\ remoteIdx[c] \notin PrecheckIds)
            => remoteIdx'[c] = remoteIdx[c]

\* C20: every id given to the bulk delete is one the pre-check of this run
\* reported for the checksum of a file of the group; the map of the pre-check
\* does not change once the group loop has begun; and a step of the loop
\* never removes from the store an asset the pre-check did not report, so an
\* asset uploaded earlier in the run survives later groups, also when they
\* hold files of the same content.
C20_OnlyPrecheckedAssetsAreDeleted ==
    /\ [](\A c \in DeleteCalls(issued) :
             pc # "crashed" => (c.ids # {} /\ c.ids \subseteq PrecheckIdsOfGroup))
    /\ [][pc = "delete" =>
             \A c \in DeleteCalls(issued') : c.ids \subseteq PrecheckIdsOfGroup]_vars
    /\ [][(pc \in InLoop /\ pc' \in InLoop \cup {"crashed"})
             => existing_assets_map' = existing_assets_map]_vars
    /\ [][(pc \in InLoop) => UploadedInRunKept]_vars

\* the second of two groups with the same contents has called delete with the
\* ids of the pre-check while the store holds what the first group uploaded
C20_Witness ==
    /\ ~DRY_RUN /\ pc = "verify" /\ i = 1
    /\ groups = <<Grp(2, 1, 0, 0), Grp(0, 1, 0, 2)>>
    /\ Call("delete", TRUE, None, {R1, R2}) \in issued
    /\ remoteIdx[1] = NewId(1, "original_photo")
    /\ remoteIdx[2] = NewId(1, "edited_photo")

\* the upload command exited 0 for every group of the run so far
UploadAlwaysExitedZero == \A f \in failedGroups : f[2] # "ingest"

\* C21: a run with DRY_RUN set in which the upload command always exited 0
\* ends with no group counted as failed, also when files of a group match
\* assets the store already holds.
C21_DryRunMatchingGroupNotFailed ==
    (DRY_RUN /\ pc = "done" /\ UploadAlwaysExitedZero)
        => (failures = 0 /\ failedGroups = {})

====
